---- MODULE Spec2Model ----
(***************************************************************************)
(* Data-access layer of the food wastage dashboard (src/app.py): the seed  *)
(* loader init_database, the query gateway execute_query / run_commit, the *)
(* listing filter, the three CRUD handlers of the "Manage Listings" page   *)
(* and the reporting queries, over the four SQLite tables.                 *)
(*                                                                         *)
(* A table is the sequence of its rows in rowid order; a row is a record   *)
(* with the table's columns.  A column that an INSERT leaves out holds     *)
(* NULL.  A date is a day number; the text strftime('%Y-%m-%d') and        *)
(* SQLite's date() produce for it is the triple <<year, month, day>> of    *)
(* its zero-padded fields, compared field by field from the left as text   *)
(* comparison does.                                                        *)
(***************************************************************************)
EXTENDS Integers, Sequences, FiniteSets, TLC

\* ------------------------------------------------------------------ bounds

\* rows of the food listings seed (the code seeds 20: range(1001, 1021))
NumSeedListings == 1
\* rows of the claims seed (the code seeds 15: range(2001, 2016))
NumSeedClaims == 1
\* most rows food_listings may hold before Add is no longer taken
MaxListings == 2
\* days the clock may advance past the first day
MaxDay == 1

\* the rows of providers_data and receivers_data the model keeps (the code has
\* ten providers and eight receivers)
KeptProviderIds == {2, 8}
KeptReceiverIds == {101}

\* the seed's random draws, cut down: Provider_ID of randint(1, 11),
\* Quantity of randint(5, 50), the expiry offset of randint(1, 10),
\* Receiver_ID of randint(101, 109), the Status choice, the claim's age
SeedProviderIds == {2, 8}
SeedQuantities == {5}
SeedExpiryOffsets == {1, 9}
SeedReceiverIds == {101}
SeedStatuses == {"Completed"}
SeedClaimAges == {1}

\* what the forms are submitted with, cut down
AddProviderNames == {"FreshMart Grocers", "SeaBreeze Fine Dining"}
AddFoodNames == {"Soup"}
AddQuantities == {10}
AddExpiryOffsets == {1, 5}
AddFoodTypes == {"Vegan"}
AddMealTypes == {"Dinner"}
UpdateQuantities == {7}
UpdateExpiryOffsets == {2}
\* what a user may try to enter below a widget's min_value: a quantity under
\* 1, an expiry date before today
BelowMinQuantities == {0}
BelowMinExpiryOffsets == {-1}

\* ------------------------------------------------------------ SQL values

\* the value of a column that holds nothing (no identifier is negative)
NULL == -1
\* what pandas reads a NULL of a numeric column as; an f-string prints it "nan"
NaN == -2

\* ------------------------------------------------------------ dates as text

\* the calendar date <<year, month, day>> of day number d, d = 0 being
\* 2026-11-28 (the days the model reaches straddle a month's end)
Calendar(d) ==
    IF d < 3 THEN <<2026, 11, 28 + d>> ELSE <<2026, 12, d - 2>>

\* strftime('%Y-%m-%d') of a date: its zero-padded fields, year first
strftime(d) == Calendar(d)

\* SQLite's date('now', '+n days')
sql_date(now, n) == Calendar(now + n)

\* text comparison a <= b of two 'YYYY-MM-DD' texts
TextLE(a, b) ==
    \/ a[1] < b[1]
    \/ a[1] = b[1] /\ a[2] < b[2]
    \/ a[1] = b[1] /\ a[2] = b[2] /\ a[3] <= b[3]

\* ------------------------------------------------------------ seed data

providers_data ==
    << [Provider_ID |-> 1, Name |-> "Green Leaf Restaurant", Type |-> "Restaurant",
        Address |-> "123 MG Road", City |-> "Bangalore", Contact |-> "9876543210"],
       [Provider_ID |-> 2, Name |-> "FreshMart Grocers", Type |-> "Grocery Store",
        Address |-> "45 Commercial Street", City |-> "Bangalore", Contact |-> "9876543211"],
       [Provider_ID |-> 3, Name |-> "The Daily Bread Bakery", Type |-> "Bakery",
        Address |-> "78 Church Street", City |-> "Bangalore", Contact |-> "9876543212"],
       [Provider_ID |-> 4, Name |-> "City Supermarket", Type |-> "Supermarket",
        Address |-> "90 Brigade Road", City |-> "Bangalore", Contact |-> "9876543213"],
       [Provider_ID |-> 5, Name |-> "The Grand Hotel", Type |-> "Restaurant",
        Address |-> "11 Palace Road", City |-> "Bangalore", Contact |-> "9876543214"],
       [Provider_ID |-> 6, Name |-> "Quick Bites Cafe", Type |-> "Cafe",
        Address |-> "22 Koramangala High St", City |-> "Bangalore", Contact |-> "9876543215"],
       [Provider_ID |-> 7, Name |-> "HealthyHarvest Organics", Type |-> "Grocery Store",
        Address |-> "33 Indiranagar 100ft Rd", City |-> "Bangalore", Contact |-> "9876543216"],
       [Provider_ID |-> 8, Name |-> "SeaBreeze Fine Dining", Type |-> "Restaurant",
        Address |-> "44 Juhu Tara Road", City |-> "Mumbai", Contact |-> "9876543217"],
       [Provider_ID |-> 9, Name |-> "Budget Grocers", Type |-> "Supermarket",
        Address |-> "55 Linking Road", City |-> "Mumbai", Contact |-> "9876543218"],
       [Provider_ID |-> 10, Name |-> "Sunrise Bakery", Type |-> "Bakery",
        Address |-> "66 Hill Road", City |-> "Mumbai", Contact |-> "9876543219"] >>

receivers_data ==
    << [Receiver_ID |-> 101, Name |-> "Hope Foundation", Type |-> "NGO",
        City |-> "Bangalore", Contact |-> "8765432109"],
       [Receiver_ID |-> 102, Name |-> "Community Food Bank", Type |-> "Community Center",
        City |-> "Bangalore", Contact |-> "8765432108"],
       [Receiver_ID |-> 103, Name |-> "Shelter Home for All", Type |-> "NGO",
        City |-> "Mumbai", Contact |-> "8765432107"],
       [Receiver_ID |-> 104, Name |-> "Child Care Trust", Type |-> "NGO",
        City |-> "Mumbai", Contact |-> "8765432106"],
       [Receiver_ID |-> 105, Name |-> "Elderly Support Group", Type |-> "Community Center",
        City |-> "Bangalore", Contact |-> "8765432105"],
       [Receiver_ID |-> 106, Name |-> "Daily Meals Initiative", Type |-> "Individual",
        City |-> "Mumbai", Contact |-> "8765432104"],
       [Receiver_ID |-> 107, Name |-> "Street Dwellers Aid", Type |-> "NGO",
        City |-> "Bangalore", Contact |-> "8765432103"],
       [Receiver_ID |-> 108, Name |-> "Urban Poor Collective", Type |-> "Community Center",
        City |-> "Mumbai", Contact |-> "8765432102"] >>

\* the provider and receiver rows the model seeds
providers_df == SelectSeq(providers_data, LAMBDA p : p.Provider_ID \in KeptProviderIds)
receivers_df == SelectSeq(receivers_data, LAMBDA r : r.Receiver_ID \in KeptReceiverIds)

\* the first Food_ID and Claim_ID of the seed's ranges
FirstFoodId == 1001
FirstClaimId == 2001

\* the positional columns of food_listings_data (the three lists of ten are
\* repeated, "* 2", to the twenty rows)
SeedFoodNames ==
    << "Vegetable Biryani", "Fresh Apples", "Sourdough Bread", "Milk Cartons",
       "Chicken Curry", "Coffee & Sandwiches", "Organic Spinach", "Grilled Fish",
       "Lentils", "Assorted Pastries", "Paneer Butter Masala", "Brown Rice",
       "Whole Wheat Bread", "Yogurt Cups", "Idli Sambar", "Iced Tea", "Quinoa",
       "Prawn Masala", "Basmati Rice", "Muffins" >>
SeedLocations ==
    << "Bangalore", "Bangalore", "Bangalore", "Bangalore", "Bangalore",
       "Bangalore", "Bangalore", "Mumbai", "Mumbai", "Mumbai" >>
SeedFoodTypes ==
    << "Vegetarian", "Vegetarian", "Vegetarian", "Vegetarian", "Non-Vegetarian",
       "Vegetarian", "Vegetarian", "Non-Vegetarian", "Vegetarian", "Vegetarian" >>
SeedMealTypes ==
    << "Lunch", "Snacks", "Breakfast", "Breakfast", "Dinner",
       "Breakfast", "Lunch", "Dinner", "Lunch", "Snacks" >>

\* element i of a list of ten repeated twice
Twice(list, i) == list[((i - 1) % Len(list)) + 1]

\* the random columns of one seed listing / one seed claim
ListingDraws == [Quantity : SeedQuantities, Offset : SeedExpiryOffsets,
                 Provider_ID : SeedProviderIds]
ClaimDraws == [Receiver_ID : SeedReceiverIds, Status : SeedStatuses, Age : SeedClaimAges]

\* food_listings_df before the merge: a row per Food_ID, draws[i] its random columns
food_listings_data(now, draws) ==
    [i \in 1..NumSeedListings |->
        [Food_ID |-> FirstFoodId + i - 1,
         Food_Name |-> SeedFoodNames[i],
         Quantity |-> draws[i].Quantity,
         Expiry_Date |-> strftime(now + draws[i].Offset),
         Provider_ID |-> draws[i].Provider_ID,
         Location |-> Twice(SeedLocations, i),
         Food_Type |-> Twice(SeedFoodTypes, i),
         Meal_Type |-> Twice(SeedMealTypes, i)]]

\* the rows pd.merge(left, providers_df[['Provider_ID', 'Type']], on='Provider_ID')
\* makes of one left row: one per provider row with its Provider_ID, the
\* provider's Type added under the name Provider_Type
MergeRow(row, provs) ==
    LET hit == SelectSeq(provs, LAMBDA p : p.Provider_ID = row.Provider_ID)
    IN  [k \in 1..Len(hit) |->
            [Food_ID |-> row.Food_ID, Food_Name |-> row.Food_Name,
             Quantity |-> row.Quantity, Expiry_Date |-> row.Expiry_Date,
             Provider_ID |-> row.Provider_ID, Location |-> row.Location,
             Food_Type |-> row.Food_Type, Meal_Type |-> row.Meal_Type,
             Provider_Type |-> hit[k].Type]]

\* the inner merge of the listings with the providers, in the order of the left rows
RECURSIVE Merge(_, _)
Merge(left, provs) ==
    IF left = <<>> THEN <<>>
    ELSE MergeRow(Head(left), provs) \o Merge(Tail(left), provs)

\* claims_data: picks is the np.random.choice of Food_IDs without replacement
claims_data(now, picks, draws) ==
    [i \in 1..NumSeedClaims |->
        [Claim_ID |-> FirstClaimId + i - 1,
         Food_ID |-> picks[i],
         Receiver_ID |-> draws[i].Receiver_ID,
         Status |-> draws[i].Status,
         Timestamp |-> [day |-> now, hours_before |-> draws[i].Age]]]

\* the Food_ID columns np.random.choice(range(1001, 1021), replace=False) can draw
ClaimPicks ==
    {p \in [1..NumSeedClaims -> FirstFoodId..(FirstFoodId + NumSeedListings - 1)] :
        \A i, j \in 1..NumSeedClaims : i # j => p[i] # p[j]}

\* ------------------------------------------------------------------ state

VARIABLES
    db_exists,       \* os.path.exists(DB_NAME): the database file is on disk
    providers,       \* table providers
    receivers,       \* table receivers
    food_listings,   \* table food_listings
    claims,          \* table claims
    running,         \* a process holds the connection init_database returned
    today,           \* the current day
    pending_delete,  \* <<Food_ID>> between Remove's two commits, <<>> otherwise
    last             \* the last handler that ran, what it was given, how it ended

vars == <<db_exists, providers, receivers, food_listings, claims, running, today,
          pending_delete, last>>
tables == <<providers, receivers, food_listings, claims>>

NoPending == <<>>
Idle == pending_delete = NoPending

Init ==
    /\ db_exists = FALSE
    /\ providers = <<>>
    /\ receivers = <<>>
    /\ food_listings = <<>>
    /\ claims = <<>>
    /\ running = FALSE
    /\ today = 0
    /\ pending_delete = NoPending
    /\ last = [op |-> "none", arg |-> NULL, result |-> "ok"]

\* --------------------------------------------------------------- seed loader

\* what init_database leaves on disk when it finds no database file: the four
\* to_sql(..., if_exists='replace') tables
SeededTables(now, ldraws, picks, cdraws) ==
    [providers |-> providers_df,
     receivers |-> receivers_df,
     food_listings |-> Merge(food_listings_data(now, ldraws), providers_df),
     claims |-> claims_data(now, picks, cdraws)]

\* every table state a seeding at day now can produce
PossibleSeeds(now) ==
    {SeededTables(now, ld, pk, cd) :
        ld \in [1..NumSeedListings -> ListingDraws],
        pk \in ClaimPicks,
        cd \in [1..NumSeedClaims -> ClaimDraws]}

\* init_database with every start seeding anew, whatever is on disk
init_database_always_seeding ==
    /\ ~running
    /\ \E t \in PossibleSeeds(today) :
          /\ providers' = t.providers
          /\ receivers' = t.receivers
          /\ food_listings' = t.food_listings
          /\ claims' = t.claims
    /\ db_exists' = TRUE
    /\ running' = TRUE
    /\ last' = [op |-> "init_database", arg |-> NULL, result |-> "ok"]
    /\ UNCHANGED <<today, pending_delete>>

\* a process start: conn = init_database().  The tables are generated and
\* written only when the database file does not exist; the connection to the
\* file is returned either way.
init_database ==
    /\ ~running
    /\ IF ~db_exists
       THEN \E t \in PossibleSeeds(today) :
               /\ providers' = t.providers
               /\ receivers' = t.receivers
               /\ food_listings' = t.food_listings
               /\ claims' = t.claims
       ELSE UNCHANGED tables
    /\ db_exists' = TRUE
    /\ running' = TRUE
    /\ last' = [op |-> "init_database", arg |-> NULL, result |-> "ok"]
    /\ UNCHANGED <<today, pending_delete>>

\* the process ends; the database file stays.  A Remove the process was in
\* the middle of is not resumed.
Stop ==
    /\ running
    /\ running' = FALSE
    /\ pending_delete' = NoPending
    /\ last' = [op |-> "Stop", arg |-> NULL, result |-> "ok"]
    /\ UNCHANGED <<db_exists, tables, today>>

\* a day passes
Tick ==
    /\ today < MaxDay
    /\ today' = today + 1
    /\ UNCHANGED <<db_exists, tables, running, pending_delete, last>>

\* ------------------------------------------------------------ query gateway

\* a numeric column value as pandas hands it to the script: NULL reads as NaN
PandasId(v) == IF v = NULL THEN NaN ELSE v

\* whether the text an f-string makes of an identifier is an SQL literal; the
\* text of NaN, "nan", is read as a column name no table has, and the
\* statement fails with "no such column: nan"
IsSqlLiteral(id) == id # NaN

\* whether Food_ID = id holds of row r; a NULL column equals nothing
FoodIdIs(r, id) == r.Food_ID # NULL /\ r.Food_ID = id

\* provider_map of the Add page: Name -> Provider_ID of "SELECT Provider_ID,
\* Name FROM providers", a later row of a name replacing an earlier one
provider_map(provs) ==
    [name \in {provs[i].Name : i \in DOMAIN provs} |->
        LET last_i == CHOOSE i \in DOMAIN provs :
                         /\ provs[i].Name = name
                         /\ \A j \in DOMAIN provs : provs[j].Name = name => j <= i
        IN  provs[last_i].Provider_ID]

\* the key of a listing in the select boxes: f"{Food_Name} (ID: {Food_ID})"
ListingKey(r) == <<r.Food_Name, PandasId(r.Food_ID)>>

\* listing_options of the Update and Remove pages: key -> Food_ID, a later
\* row of a key replacing an earlier one
listing_options(listings) ==
    [key \in {ListingKey(listings[i]) : i \in DOMAIN listings} |->
        LET last_i == CHOOSE i \in DOMAIN listings :
                         /\ ListingKey(listings[i]) = key
                         /\ \A j \in DOMAIN listings :
                               ListingKey(listings[j]) = key => j <= i
        IN  PandasId(listings[last_i].Food_ID)]

\* ------------------------------------------------------------------- Add

\* Add that stamps the listing with the Type and City of the first provider row
add_listing_first_provider(provs, listings, provider_id, food_name, quantity, expiry_date, food_type, meal_type) ==
    [result |-> "ok",
     food_listings |-> Append(listings,
        [Food_ID |-> NULL, Food_Name |-> food_name, Quantity |-> quantity,
         Expiry_Date |-> strftime(expiry_date), Provider_ID |-> provider_id,
         Location |-> provs[1].City, Food_Type |-> food_type,
         Meal_Type |-> meal_type, Provider_Type |-> provs[1].Type])]

\* the submitted Add form from the provider lookup on: the food_listings table
\* it leaves and how it ends.  The lookup's first row gives Type and City; with
\* no row, ['Type'][0] raises KeyError before anything is written.  The INSERT
\* names eight columns, Food_ID not among them.
add_listing(provs, listings, provider_id, food_name, quantity, expiry_date, food_type, meal_type) ==
    LET provider_details == SelectSeq(provs, LAMBDA p : p.Provider_ID = provider_id)
    IN  IF provider_details = <<>>
        THEN [result |-> "KeyError", food_listings |-> listings]
        ELSE [result |-> "ok",
              food_listings |-> Append(listings,
                 [Food_ID |-> NULL, Food_Name |-> food_name, Quantity |-> quantity,
                  Expiry_Date |-> strftime(expiry_date), Provider_ID |-> provider_id,
                  Location |-> provider_details[1].City, Food_Type |-> food_type,
                  Meal_Type |-> meal_type, Provider_Type |-> provider_details[1].Type])]

\* "Add Listing" pressed in a form whose widgets have no min_value
AddNewListing_no_min_value(provider_name, food_name, quantity, expiry_date, food_type, meal_type) ==
    /\ running /\ Idle
    /\ Len(food_listings) < MaxListings
    /\ provider_name \in DOMAIN provider_map(providers)
    /\ LET provider_id == provider_map(providers)[provider_name]
           out == add_listing(providers, food_listings, provider_id, food_name,
                              quantity, expiry_date, food_type, meal_type)
       IN  /\ food_listings' = out.food_listings
           /\ last' = [op |-> "Add",
                       arg |-> [provider_name |-> provider_name, food_name |-> food_name,
                                quantity |-> quantity, expiry_date |-> expiry_date,
                                food_type |-> food_type, meal_type |-> meal_type],
                       result |-> out.result]
    /\ UNCHANGED <<db_exists, providers, receivers, claims, running, today, pending_delete>>

\* "Add Listing" pressed with the form's values; number_input(min_value=1)
\* and date_input(min_value=today) deliver no value under their minimum
AddNewListing(provider_name, food_name, quantity, expiry_date, food_type, meal_type) ==
    /\ running /\ Idle
    /\ Len(food_listings) < MaxListings
    /\ provider_name \in DOMAIN provider_map(providers)
    /\ quantity >= 1
    /\ expiry_date >= today
    /\ LET provider_id == provider_map(providers)[provider_name]
           out == add_listing(providers, food_listings, provider_id, food_name,
                              quantity, expiry_date, food_type, meal_type)
       IN  /\ food_listings' = out.food_listings
           /\ last' = [op |-> "Add",
                       arg |-> [provider_name |-> provider_name, food_name |-> food_name,
                                quantity |-> quantity, expiry_date |-> expiry_date,
                                food_type |-> food_type, meal_type |-> meal_type],
                       result |-> out.result]
    /\ UNCHANGED <<db_exists, providers, receivers, claims, running, today, pending_delete>>

\* ------------------------------------------------------------------ Update

\* Update whose UPDATE statement has no WHERE clause
update_listing_all_rows(listings, now, food_id, new_quantity, new_expiry_date) ==
    LET hit == SelectSeq(listings, LAMBDA r : FoodIdIs(r, food_id))
    IN  IF ~IsSqlLiteral(food_id) \/ hit = <<>>
        THEN [result |-> "DatabaseError", food_listings |-> listings]
        ELSE [result |-> "ok",
              food_listings |->
                 [i \in DOMAIN listings |->
                    [listings[i] EXCEPT !.Quantity = new_quantity,
                                        !.Expiry_Date = strftime(new_expiry_date)]]]

\* Update that reads NaN as "Food_ID IS NULL" and writes the rows without a Food_ID
update_listing_null_matches(listings, now, food_id, new_quantity, new_expiry_date) ==
    [result |-> "ok",
     food_listings |->
        [i \in DOMAIN listings |->
           IF PandasId(listings[i].Food_ID) = food_id
           THEN [listings[i] EXCEPT !.Quantity = new_quantity,
                                    !.Expiry_Date = strftime(new_expiry_date)]
           ELSE listings[i]]]

\* the Update page for the selected listing's Food_ID, from the lookup of
\* current_data on: the food_listings table it leaves and how it ends.  The
\* lookup fails on the text of NaN; .iloc[0] raises IndexError when no row has
\* the Food_ID; the date input refuses a current expiry date before its
\* minimum, today.  The UPDATE writes the two columns of the rows WHERE Food_ID = ?.
update_listing(listings, now, food_id, new_quantity, new_expiry_date) ==
    LET hit == SelectSeq(listings, LAMBDA r : FoodIdIs(r, food_id))
    IN  IF ~IsSqlLiteral(food_id)
        THEN [result |-> "DatabaseError", food_listings |-> listings]
        ELSE IF hit = <<>>
        THEN [result |-> "IndexError", food_listings |-> listings]
        ELSE IF ~TextLE(strftime(now), hit[1].Expiry_Date)
        THEN [result |-> "StreamlitAPIException", food_listings |-> listings]
        ELSE [result |-> "ok",
              food_listings |->
                 [i \in DOMAIN listings |->
                    IF FoodIdIs(listings[i], food_id)
                    THEN [listings[i] EXCEPT !.Quantity = new_quantity,
                                             !.Expiry_Date = strftime(new_expiry_date)]
                    ELSE listings[i]]]

\* "Update Listing" pressed for the selected listing with the form's values
UpdateExistingListing(key, new_quantity, new_expiry_date) ==
    /\ running /\ Idle
    /\ key \in DOMAIN listing_options(food_listings)
    /\ new_quantity >= 1
    /\ new_expiry_date >= today
    /\ LET food_id_to_update == listing_options(food_listings)[key]
           out == update_listing(food_listings, today, food_id_to_update,
                                 new_quantity, new_expiry_date)
       IN  /\ food_listings' = out.food_listings
           /\ last' = [op |-> "Update", arg |-> key, result |-> out.result]
    /\ UNCHANGED <<db_exists, providers, receivers, claims, running, today, pending_delete>>

\* ------------------------------------------------------------------ Remove

\* Remove's first statement deleting the listing, its second the claims
remove_first_commit_listing_first(tbl, food_id) ==
    [claims |-> tbl.claims,
     food_listings |-> SelectSeq(tbl.food_listings, LAMBDA r : ~FoodIdIs(r, food_id))]

\* the tables after Remove's first run_commit: DELETE FROM claims WHERE Food_ID = id
remove_first_commit(tbl, food_id) ==
    [claims |-> SelectSeq(tbl.claims, LAMBDA c : ~FoodIdIs(c, food_id)),
     food_listings |-> tbl.food_listings]

\* the tables after Remove's second run_commit: DELETE FROM food_listings WHERE Food_ID = id
remove_second_commit(tbl, food_id) ==
    [claims |-> tbl.claims,
     food_listings |-> SelectSeq(tbl.food_listings, LAMBDA r : ~FoodIdIs(r, food_id))]

\* "Remove Listing" pressed for the selected listing, up to the first commit.
\* The DELETE is made with an f-string: with the text of NaN it fails, and the
\* handler ends there.
RemoveListing(key) ==
    /\ running /\ Idle
    /\ key \in DOMAIN listing_options(food_listings)
    /\ LET food_id_to_delete == listing_options(food_listings)[key]
       IN  IF ~IsSqlLiteral(food_id_to_delete)
           THEN /\ last' = [op |-> "Remove", arg |-> key, result |-> "OperationalError"]
                /\ UNCHANGED <<claims, food_listings, pending_delete>>
           ELSE LET out == remove_first_commit(
                              [claims |-> claims, food_listings |-> food_listings],
                              food_id_to_delete)
                IN  /\ claims' = out.claims
                    /\ food_listings' = out.food_listings
                    /\ pending_delete' = <<food_id_to_delete>>
                    /\ last' = [op |-> "Remove", arg |-> key, result |-> "deleting"]
    /\ UNCHANGED <<db_exists, providers, receivers, running, today>>

\* Remove's second commit, and the handler's end
RemoveListingSecond ==
    /\ running /\ ~Idle
    /\ LET out == remove_second_commit(
                     [claims |-> claims, food_listings |-> food_listings], pending_delete[1])
       IN  /\ claims' = out.claims
           /\ food_listings' = out.food_listings
    /\ pending_delete' = NoPending
    /\ last' = [last EXCEPT !.result = "ok"]
    /\ UNCHANGED <<db_exists, providers, receivers, running, today>>

\* Remove's second statement fails in the store: run_commit raises, nothing is
\* written, and the handler ends with the claims deleted and the listing kept
RemoveListingSecondFails ==
    /\ running /\ ~Idle
    /\ pending_delete' = NoPending
    /\ last' = [last EXCEPT !.result = "store failure"]
    /\ UNCHANGED <<db_exists, tables, running, today>>

\* ------------------------------------------------------------ listing filter

\* the select boxes' options: SELECT DISTINCT <column> FROM food_listings
Options(listings) ==
    [city |-> {listings[i].Location : i \in DOMAIN listings},
     provider_type |-> {listings[i].Provider_Type : i \in DOMAIN listings},
     food_type |-> {listings[i].Food_Type : i \in DOMAIN listings},
     meal_type |-> {listings[i].Meal_Type : i \in DOMAIN listings}]

\* a multiselect's value: the chosen options as a list, in the options' order
RECURSIVE ListOf(_)
ListOf(S) ==
    IF S = {} THEN <<>>
    ELSE LET x == CHOOSE y \in S : TRUE IN <<x>> \o ListOf(S \ {x})

\* the query text's four IN lists: the number of '?' in each
filter_query(sel) ==
    <<Len(sel.city), Len(sel.provider_type), Len(sel.food_type), Len(sel.meal_type)>>

\* params with the provider types ahead of the cities
filter_params_types_first(sel) ==
    sel.provider_type \o sel.city \o sel.food_type \o sel.meal_type

\* params = selected_city + selected_provider_type + selected_food_type + selected_meal_type
filter_params(sel) ==
    sel.city \o sel.provider_type \o sel.food_type \o sel.meal_type

\* whether value v is in the IN list that binds n parameters after the first skip
InList(v, params, skip, n) == \E k \in (skip + 1)..(skip + n) : params[k] = v

\* one row of the filter's result: the listing's columns and the provider's
FilterRow(fl, p) ==
    [Food_Name |-> fl.Food_Name, Quantity |-> fl.Quantity, Expiry_Date |-> fl.Expiry_Date,
     Location |-> fl.Location, Food_Type |-> fl.Food_Type, Meal_Type |-> fl.Meal_Type,
     ProviderName |-> p.Name, ProviderType |-> p.Type, ProviderContact |-> p.Contact]

\* the rows the filter's SELECT gives for one listing: the JOIN's provider
\* rows, kept when the four IN lists, bound left to right, all hold
RECURSIVE FilterSelect(_, _, _, _)
FilterSelect(query, params, listings, provs) ==
    IF listings = <<>> THEN <<>>
    ELSE LET fl == Head(listings)
             joined == SelectSeq(provs, LAMBDA p : p.Provider_ID = fl.Provider_ID)
             keep ==
                /\ InList(fl.Location, params, 0, query[1])
                /\ InList(fl.Provider_Type, params, query[1], query[2])
                /\ InList(fl.Food_Type, params, query[1] + query[2], query[3])
                /\ InList(fl.Meal_Type, params, query[1] + query[2] + query[3], query[4])
         IN  (IF keep THEN [k \in 1..Len(joined) |-> FilterRow(fl, joined[k])] ELSE <<>>)
             \o FilterSelect(query, params, Tail(listings), provs)

\* execute_query of the filter: the parameters are passed only when the list
\* is not empty; SQLite refuses a statement whose '?' count is not the
\* number of parameters bound
execute_filter_query(query, params, listings, provs) ==
    LET holes == query[1] + query[2] + query[3] + query[4]
        bound == IF params # <<>> THEN Len(params) ELSE 0
    IN  IF holes # bound
        THEN [result |-> "ProgrammingError", rows |-> <<>>]
        ELSE [result |-> "ok", rows |-> FilterSelect(query, params, listings, provs)]

\* the selections the Browse page can be given over the listings: any part of
\* each box's options
Selections(listings) ==
    [city : {ListOf(S) : S \in SUBSET Options(listings).city},
     provider_type : {ListOf(S) : S \in SUBSET Options(listings).provider_type},
     food_type : {ListOf(S) : S \in SUBSET Options(listings).food_type},
     meal_type : {ListOf(S) : S \in SUBSET Options(listings).meal_type}]

\* the Browse page drawn with the four selections: filtered_data
Browse(sel) ==
    /\ running /\ Idle
    /\ sel \in Selections(food_listings)
    /\ LET out == execute_filter_query(filter_query(sel), filter_params(sel),
                                       food_listings, providers)
       IN  last' = [op |-> "Browse", arg |-> sel, result |-> out.result, rows |-> out.rows]
    /\ UNCHANGED <<db_exists, tables, running, today, pending_delete>>

\* ------------------------------------------------------------ reporting queries

\* ORDER BY Expiry_Date ASC: row r put into the sorted rows, after its equals
RECURSIVE InsertByExpiry(_, _)
InsertByExpiry(r, sorted) ==
    IF sorted = <<>> THEN <<r>>
    ELSE IF TextLE(Head(sorted).Expiry_Date, r.Expiry_Date)
         THEN <<Head(sorted)>> \o InsertByExpiry(r, Tail(sorted))
         ELSE <<r>> \o sorted

RECURSIVE OrderByExpiry(_)
OrderByExpiry(rows) ==
    IF rows = <<>> THEN <<>>
    ELSE InsertByExpiry(rows[Len(rows)], OrderByExpiry(SubSeq(rows, 1, Len(rows) - 1)))

\* the columns query 14 selects
Query14Row(r) ==
    [Food_Name |-> r.Food_Name, Quantity |-> r.Quantity,
     Expiry_Date |-> r.Expiry_Date, Location |-> r.Location]

\* query 14: WHERE Expiry_Date BETWEEN date('now') AND date('now', '+3 days')
\* ORDER BY Expiry_Date ASC
query14(listings, now) ==
    LET hit == SelectSeq(listings, LAMBDA r : /\ TextLE(sql_date(now, 0), r.Expiry_Date)
                                          /\ TextLE(r.Expiry_Date, sql_date(now, 3)))
        sorted == OrderByExpiry(hit)
    IN  [i \in DOMAIN sorted |-> Query14Row(sorted[i])]

\* SUM(Quantity) over the rows: the values added up from the first row on
RECURSIVE SumQuantity(_)
SumQuantity(rows) ==
    IF rows = <<>> THEN 0 ELSE Head(rows).Quantity + SumQuantity(Tail(rows))

\* query 5: SELECT SUM(Quantity) AS TotalAvailableQuantity FROM food_listings,
\* one row; SUM of no rows is NULL
query5(listings) ==
    <<[TotalAvailableQuantity |->
          IF listings = <<>> THEN NULL ELSE SumQuantity(listings)]>>

\* GROUP BY Location: the Locations of the rows, each once, in the order of
\* their first rows
RECURSIVE GroupByLocation(_)
GroupByLocation(rows) ==
    IF rows = <<>> THEN <<>>
    ELSE LET before == GroupByLocation(SubSeq(rows, 1, Len(rows) - 1))
             loc == rows[Len(rows)].Location
         IN  IF \E k \in DOMAIN before : before[k] = loc THEN before
             ELSE Append(before, loc)

\* the row of query 6 for one Location: COUNT(Food_ID) counts the rows of
\* the group whose Food_ID is not NULL
Query6Row(listings, loc) ==
    [Location |-> loc,
     NumberOfListings |-> Cardinality({i \in DOMAIN listings :
                                          /\ listings[i].Location = loc
                                          /\ listings[i].Food_ID # NULL})]

\* ORDER BY NumberOfListings DESC: row r put into the sorted rows, after its
\* equals (SQL leaves the order of equals open)
RECURSIVE InsertByCount(_, _)
InsertByCount(r, sorted) ==
    IF sorted = <<>> THEN <<r>>
    ELSE IF Head(sorted).NumberOfListings >= r.NumberOfListings
         THEN <<Head(sorted)>> \o InsertByCount(r, Tail(sorted))
         ELSE <<r>> \o sorted

RECURSIVE OrderByCount(_)
OrderByCount(rows) ==
    IF rows = <<>> THEN <<>>
    ELSE InsertByCount(rows[Len(rows)], OrderByCount(SubSeq(rows, 1, Len(rows) - 1)))

\* query 6: SELECT Location, COUNT(Food_ID) AS NumberOfListings
\* FROM food_listings GROUP BY Location ORDER BY NumberOfListings DESC
query6(listings) ==
    LET groups == GroupByLocation(listings)
    IN  OrderByCount([k \in DOMAIN groups |-> Query6Row(listings, groups[k])])

\* the dashboard's "Total Food Listings":
\* SELECT COUNT(DISTINCT Food_ID) FROM food_listings, NULL not counted
total_food_listings(listings) ==
    Cardinality({listings[i].Food_ID : i \in DOMAIN listings} \ {NULL})

\* ------------------------------------------------------------ specifications

Next ==
    \/ init_database
    \/ Stop
    \/ Tick
    \/ \E n \in AddProviderNames, f \in AddFoodNames,
          q \in AddQuantities \cup BelowMinQuantities,
          e \in AddExpiryOffsets \cup BelowMinExpiryOffsets,
          ft \in AddFoodTypes, mt \in AddMealTypes :
          AddNewListing(n, f, q, today + e, ft, mt)
    \/ \E key \in DOMAIN listing_options(food_listings),
          q \in UpdateQuantities \cup BelowMinQuantities,
          e \in UpdateExpiryOffsets \cup BelowMinExpiryOffsets :
          UpdateExistingListing(key, q, today + e)
    \/ \E key \in DOMAIN listing_options(food_listings) : RemoveListing(key)
    \/ RemoveListingSecond
    \/ RemoveListingSecondFails

Spec == Init /\ [][Next]_vars

\* the Browse page: a running process over seeded tables that Add may have
\* added to, the four multiselects set
AddedTo(listings) ==
    {listings} \cup
    {add_listing(providers_df, listings, provider_map(providers_df)[n], f, q, e, ft, mt).food_listings :
        n \in AddProviderNames, f \in AddFoodNames, q \in AddQuantities,
        e \in AddExpiryOffsets, ft \in AddFoodTypes, mt \in AddMealTypes}

BrowseInit ==
    /\ db_exists = TRUE
    /\ running = TRUE
    /\ today = 0
    /\ pending_delete = NoPending
    /\ \E t \in PossibleSeeds(0) :
          /\ providers = t.providers
          /\ receivers = t.receivers
          /\ claims = t.claims
          /\ food_listings \in UNION {AddedTo(l) : l \in AddedTo(t.food_listings)}
    /\ \E sel \in Selections(food_listings) :
          last = [op |-> "multiselect", arg |-> sel, result |-> "ok"]

BrowseNext ==
    \/ last.op = "multiselect" /\ Browse(last.arg)

BrowseSpec == BrowseInit /\ [][BrowseNext]_vars

\* ------------------------------------------------------------------ claims

\* the listing rows the select boxes show under key
RowsOfKey(listings, key) == {i \in DOMAIN listings : ListingKey(listings[i]) = key}

\* the Remove handler has ended, and not by a failure of the store
RemoveEnded == last.op = "Remove" /\ last.result \in {"ok", "OperationalError"}

\* C1: once Remove has run for a listing of the store, seeded or added, no
\* listing row and no claim row has that Food_ID: the listing chosen is gone.
C1_RemovedListingIsGone ==
    RemoveEnded =>
        /\ last.result = "ok"
        /\ RowsOfKey(food_listings, last.arg) = {}
        /\ \A i \in DOMAIN claims : PandasId(claims[i].Food_ID) # last.arg[2]

\* C2: in every state, the one between Remove's two commits and the one a
\* failed second delete leaves included, every claim's Food_ID is that of a
\* listing in the store; between the commits the claims of the listing are
\* already gone and the listing is still there.
C2_NoOrphanedClaims ==
    /\ \A i \in DOMAIN claims :
          \E j \in DOMAIN food_listings : FoodIdIs(food_listings[j], claims[i].Food_ID)
    /\ ~Idle =>
          /\ \A i \in DOMAIN claims : claims[i].Food_ID # pending_delete[1]
          /\ \E j \in DOMAIN food_listings : FoodIdIs(food_listings[j], pending_delete[1])

\* a Remove whose second delete failed: the claim of the listing is deleted,
\* the listing is kept
C2_Witness ==
    /\ last.op = "Remove" /\ last.result = "store failure"
    /\ Len(claims) < NumSeedClaims
    /\ RowsOfKey(food_listings, last.arg) # {}

\* C3: every listing has a Food_ID, and no two listings have the same one.
C3_FoodIdsFreshAndUnique ==
    /\ \A i \in DOMAIN food_listings : food_listings[i].Food_ID # NULL
    /\ \A i, j \in DOMAIN food_listings :
          i # j => food_listings[i].Food_ID # food_listings[j].Food_ID

\* the provider row with the name chosen in the Add form
ProviderNamed(name) ==
    CHOOSE k \in DOMAIN providers : providers[k].Name = name

\* C4: Add for provider P appends exactly one row to food_listings; the row
\* has Provider_ID P, P's Type as Provider_Type, P's City as Location, and
\* the submitted food name, quantity, expiry date, food type and meal type.
C4_AddInsertsStampedRow ==
    [][(/\ last'.op = "Add"
        /\ \E n \in AddProviderNames, f \in AddFoodNames, q \in AddQuantities,
              e \in AddExpiryOffsets, ft \in AddFoodTypes, mt \in AddMealTypes :
              AddNewListing(n, f, q, today + e, ft, mt)) =>
          LET form == last'.arg
              P == providers[ProviderNamed(form.provider_name)]
              r == food_listings'[Len(food_listings')]
          IN  /\ Len(food_listings') = Len(food_listings) + 1
              /\ \A i \in DOMAIN food_listings : food_listings'[i] = food_listings[i]
              /\ r.Provider_ID = P.Provider_ID
              /\ r.Provider_Type = P.Type
              /\ r.Location = P.City
              /\ r.Food_Name = form.food_name /\ r.Quantity = form.quantity
              /\ r.Expiry_Date = Calendar(form.expiry_date)
              /\ r.Food_Type = form.food_type /\ r.Meal_Type = form.meal_type
              /\ UNCHANGED <<providers, receivers, claims>>]_vars

\* an Add for the Mumbai provider has run, after another row was in the table
C4_Witness ==
    /\ last.op = "Add" /\ last.result = "ok"
    /\ last.arg.provider_name = "SeaBreeze Fine Dining"
    /\ Len(food_listings) >= 2
    /\ food_listings[Len(food_listings)].Location = "Mumbai"

\* row r with its Quantity and Expiry_Date taken from row w
WithQuantityAndExpiryOf(r, w) ==
    [r EXCEPT !.Quantity = w.Quantity, !.Expiry_Date = w.Expiry_Date]

\* C5: Update of listing X leaves every column of X but Quantity and
\* Expiry_Date as it was, and leaves every other listing row and every
\* provider, receiver and claim row as it was.
C5_UpdateChangesTwoColumns ==
    [][(/\ last'.op = "Update"
        /\ \E q \in UpdateQuantities, e \in UpdateExpiryOffsets :
              UpdateExistingListing(last'.arg, q, today + e)) =>
          /\ UNCHANGED <<providers, receivers, claims>>
          /\ DOMAIN food_listings' = DOMAIN food_listings
          /\ \A i \in DOMAIN food_listings :
                /\ food_listings'[i] =
                      WithQuantityAndExpiryOf(food_listings[i], food_listings'[i])
                /\ ListingKey(food_listings[i]) # last'.arg =>
                      food_listings'[i] = food_listings[i]]_vars

\* an Update has written one row of a table of two
C5_Witness ==
    /\ last.op = "Update" /\ last.result = "ok"
    /\ Len(food_listings) >= 2
    /\ \E i, j \in DOMAIN food_listings :
          /\ food_listings[i].Quantity \in UpdateQuantities
          /\ ListingKey(food_listings[i]) = last.arg
          /\ ListingKey(food_listings[j]) # last.arg

\* the four tables as one record
Tables ==
    [providers |-> providers, receivers |-> receivers,
     food_listings |-> food_listings, claims |-> claims]

\* the table states a first load leaves, on whichever day it runs
AnySeed == UNION {PossibleSeeds(d) : d \in 0..MaxDay}

\* C6 as stated: every process start leaves the four tables as a first load
\* leaves them, so no write of an earlier session shows.
C6_EveryStartReseeds ==
    [][init_database => Tables' \in AnySeed]_vars

\* C6, amended: a process start seeds the four tables only when no database
\* file exists; when the file exists it leaves the tables as they are.
C6_StartKeepsExistingStore ==
    [][init_database =>
          IF db_exists THEN UNCHANGED tables ELSE Tables' \in PossibleSeeds(today)]_vars

\* a process has just started over a store that holds a listing Add made and
\* no longer holds every seeded listing
C6_Witness ==
    /\ last.op = "init_database"
    /\ running
    /\ \E i \in DOMAIN food_listings : food_listings[i].Food_ID = NULL
    /\ Tables \notin AnySeed

\* the values of a selection
Chosen(list) == {list[k] : k \in DOMAIN list}

\* the listings whose four attributes are all among the selected values
Matching(listings, sel) ==
    SelectSeq(listings, LAMBDA r : /\ r.Location \in Chosen(sel.city)
                                   /\ r.Provider_Type \in Chosen(sel.provider_type)
                                   /\ r.Food_Type \in Chosen(sel.food_type)
                                   /\ r.Meal_Type \in Chosen(sel.meal_type))

\* C7: the filter's result is exactly the listings whose Location,
\* Provider_Type, Food_Type and Meal_Type are all among the selected values,
\* each joined with its provider; every returned row satisfies the four
\* memberships, and the result is empty when a selection is empty.
C7_FilterIsExactMembership ==
    last.op = "Browse" =>
        LET sel == last.arg
            want == Matching(food_listings, sel)
        IN  /\ last.result = "ok"
            /\ Len(last.rows) = Len(want)
            /\ \A i \in DOMAIN want :
                  \E k \in DOMAIN providers :
                     /\ providers[k].Provider_ID = want[i].Provider_ID
                     /\ last.rows[i] = FilterRow(want[i], providers[k])
            /\ \A i \in DOMAIN last.rows :
                  /\ last.rows[i].Location \in Chosen(sel.city)
                  /\ last.rows[i].ProviderType \in Chosen(sel.provider_type)
                  /\ last.rows[i].Food_Type \in Chosen(sel.food_type)
                  /\ last.rows[i].Meal_Type \in Chosen(sel.meal_type)
            /\ (\E d \in {sel.city, sel.provider_type, sel.food_type, sel.meal_type} : d = <<>>)
                  => last.rows = <<>>

\* the filter has kept some listings and dropped others
C7_Witness ==
    /\ last.op = "Browse"
    /\ last.rows # <<>>
    /\ Len(last.rows) < Len(food_listings)
    /\ Len(last.arg.city) >= 1 /\ Len(last.arg.provider_type) >= 1

\* identifiers to try the handlers with
ProbeProviderIds == 0..11
ProbeFoodIds == {NaN, 0} \cup (FirstFoodId..(FirstFoodId + NumSeedListings))

\* C8: Add for a provider id no provider row has, and Update for a Food_ID
\* no listing row has, end in an error and leave food_listings as it is; an
\* Update that has run for a listing whose Food_ID no row has ended in an error.
C8_UnknownIdFailsUnchanged ==
    /\ \A pid \in ProbeProviderIds, f \in AddFoodNames, q \in AddQuantities,
          e \in AddExpiryOffsets, ft \in AddFoodTypes, mt \in AddMealTypes :
          (\A k \in DOMAIN providers : providers[k].Provider_ID # pid) =>
             LET out == add_listing(providers, food_listings, pid, f, q, today + e, ft, mt)
             IN  out.result # "ok" /\ out.food_listings = food_listings
    /\ \A fid \in ProbeFoodIds, q \in UpdateQuantities, e \in UpdateExpiryOffsets :
          (\A j \in DOMAIN food_listings : ~FoodIdIs(food_listings[j], fid)) =>
             LET out == update_listing(food_listings, today, fid, q, today + e)
             IN  out.result # "ok" /\ out.food_listings = food_listings
    /\ (last.op = "Update" /\ \A j \in DOMAIN food_listings :
                                 ~FoodIdIs(food_listings[j], last.arg[2])) =>
          last.result # "ok"

\* an Update for a listing without a Food_ID has ended in an error
C8_Witness ==
    /\ last.op = "Update" /\ last.result = "DatabaseError"
    /\ RowsOfKey(food_listings, last.arg) # {}
    /\ last.arg[2] = NaN

\* whether listing row r is among the rows query 14 gives
InQuery14(r) ==
    \E k \in DOMAIN query14(food_listings, today) :
       query14(food_listings, today)[k] = Query14Row(r)

\* whether the expiry date of row r is in [today, today + 3 days]
ExpiresWithin3Days(r) ==
    \E d \in 0..3 : r.Expiry_Date = Calendar(today + d)

\* C9: query 14 gives the listings of the store that expire in [today,
\* today + 3 days], in ascending order of expiry; a listing added with such a
\* date is among them after the Add, and is not among them after its Remove.
C9_Query14FollowsAddRemove ==
    LET q14 == query14(food_listings, today)
    IN  /\ \A i \in DOMAIN food_listings :
              InQuery14(food_listings[i]) <=> ExpiresWithin3Days(food_listings[i])
        /\ Len(q14) = Cardinality({i \in DOMAIN food_listings :
                                      ExpiresWithin3Days(food_listings[i])})
        /\ \A k \in 1..(Len(q14) - 1) : TextLE(q14[k].Expiry_Date, q14[k + 1].Expiry_Date)
        /\ (last.op = "Add" /\ last.arg.expiry_date \in today..(today + 3)) =>
              InQuery14(food_listings[Len(food_listings)])
        /\ RemoveEnded =>
              \A i \in RowsOfKey(food_listings, last.arg) : ~InQuery14(food_listings[i])

\* C10: every listing's Provider_Type is the Type, and its Location the City,
\* of the provider row its Provider_ID names.
C10_ListingMatchesProvider ==
    \A i \in DOMAIN food_listings :
       \E k \in DOMAIN providers :
          /\ providers[k].Provider_ID = food_listings[i].Provider_ID
          /\ food_listings[i].Provider_Type = providers[k].Type
          /\ food_listings[i].Location = providers[k].City

\* the rows of food_listings' that the Add or Update recorded in last' wrote
WrittenRows ==
    IF last'.op = "Add" THEN {Len(food_listings')}
    ELSE {i \in DOMAIN food_listings' : FoodIdIs(food_listings'[i], last'.arg[2])}

\* C11: every Add and every Update writes a Quantity that is an integer >= 1
\* and an Expiry_Date not earlier than the date of the submission, and every
\* row of food_listings, seeded or written, has Quantity >= 1.
C11_WritesRespectMinimums ==
    /\ [](\A i \in DOMAIN food_listings :
            food_listings[i].Quantity \in Nat /\ food_listings[i].Quantity >= 1)
    /\ [][(/\ last'.op \in {"Add", "Update"} /\ last'.result = "ok"
            /\ food_listings' # food_listings) =>
              \A i \in WrittenRows :
                 /\ food_listings'[i].Quantity \in Nat
                 /\ food_listings'[i].Quantity >= 1
                 /\ TextLE(strftime(today), food_listings'[i].Expiry_Date)]_vars

\* an Update has written a seeded row while an added row is in the table
C11_Witness ==
    /\ last.op = "Update" /\ last.result = "ok"
    /\ \E i, j \in DOMAIN food_listings :
          /\ food_listings[i].Food_ID = NULL
          /\ food_listings[i].Quantity \in AddQuantities
          /\ food_listings[j].Food_ID # NULL
          /\ food_listings[j].Quantity \in UpdateQuantities
          /\ food_listings[j].Expiry_Date \in {strftime(today + e) : e \in UpdateExpiryOffsets}

\* the Quantity of every row of the table added up, 0 for no rows
RECURSIVE QuantityOfRows(_, _)
QuantityOfRows(listings, n) ==
    IF n = 0 THEN 0 ELSE listings[n].Quantity + QuantityOfRows(listings, n - 1)

\* C12: after any sequence of Add, Update and Remove, query 5 gives the sum
\* of Quantity over all rows food_listings holds.
C12_Query5IsSumOfQuantities ==
    running =>
       query5(food_listings)[1].TotalAvailableQuantity =
          QuantityOfRows(food_listings, Len(food_listings))

\* the rows of the table with Location loc
RowsAt(loc) == {i \in DOMAIN food_listings : food_listings[i].Location = loc}

\* the counts of the rows of query 6 added up
RECURSIVE SumOfCounts(_)
SumOfCounts(rows) ==
    IF rows = <<>> THEN 0 ELSE Head(rows).NumberOfListings + SumOfCounts(Tail(rows))

\* C13: after any sequence of Add, Update and Remove, query 6 gives for each
\* Location the number of rows of food_listings with that Location, rows
\* made by Add included, so its counts add up to the number of rows of
\* food_listings, and the dashboard's listing total is that number too.
C13_Query6CountsEveryListing ==
    running =>
       LET q6 == query6(food_listings)
       IN  /\ \A i \in DOMAIN food_listings :
                 \E k \in DOMAIN q6 : q6[k].Location = food_listings[i].Location
           /\ \A k \in DOMAIN q6 :
                 q6[k].NumberOfListings = Cardinality(RowsAt(q6[k].Location))
           /\ SumOfCounts(q6) = Len(food_listings)
           /\ total_food_listings(food_listings) = Len(food_listings)

====
